---- MODULE Spec2Model ----
(***************************************************************************)
(* One call of marketplace_interact (mech_client/marketplace_interact.py): *)
(* configuration and key checks, mech info resolution, payment pre-flight, *)
(* request submission with its retry/deadline loop (on-chain or           *)
(* off-chain), the delivery wait, and the final payload fetch.            *)
(*                                                                         *)
(* The arguments of the call are drawn in Init.  Whatever the call reads   *)
(* from its environment (configuration, key file, ledger values, the       *)
(* outcome of a network operation) is drawn where the code reads it.       *)
(* calls holds every externally visible operation the call has made.       *)
(***************************************************************************)
EXTENDS Integers, Sequences, FiniteSets, TLC

(* ---------------------------- bounds ----------------------------------- *)
\* largest maxDeliveryRate the mech contract may declare
MaxRate == 2
\* largest balance any balance read may return
MaxBalance == 2
\* largest values of the caller's retries / timeout / sleep arguments
MaxRetriesArg == 1
MaxTimeoutArg == 1
MaxSleepArg == 1
\* longest time one submission attempt may take
MaxAttemptTime == 1
\* largest account nonce mapNonces may return
MaxNonce == 1

(* ------------------------- program constants --------------------------- *)
PAYMENT_TYPE_NATIVE == "ba699a34be8fe0e7725e93dcbce1701b0211a8ca61330aaeb8a05bf2ec7abed1"
PAYMENT_TYPE_TOKEN == "3679d66ef546e66ce9057c4a052f317b135bc8e8c509638f7966edfd4fcf45e9"
PAYMENT_TYPE_NVM == "803dd08fe79d91027fc9024e254a0942372b92f3ccabc1bd19f4a5c2b251c316"
\* a payment type the mech may declare that is none of the three above
PAYMENT_TYPE_OTHER == "0000000000000000000000000000000000000000000000000000000000000000"

\* chain ids that have an entry in CHAIN_TO_WRAPPED_TOKEN
CHAIN_TO_WRAPPED_TOKEN == {1, 10, 100, 137, 8453, 42220}
\* chain ids that have an entry in CHAIN_TO_DEFAULT_MECH_MARKETPLACE_REQUEST_CONFIG
CHAIN_TO_DEFAULT_MECH_MARKETPLACE_REQUEST_CONFIG == {100}

\* defaults imported from mech_client.interact
MAX_RETRIES == 3
TIMEOUT == 60
WAIT_SLEEP == 3

\* web3.constants.ADDRESS_ZERO, and the address of a deployed marketplace
ADDRESS_ZERO == "0x0000000000000000000000000000000000000000"
MARKETPLACE_ADDRESS == "0xMechMarketplace"

\* members of mech_client.interact.ConfirmationType
ConfirmationType == {"ON_CHAIN", "OFF_CHAIN", "WAIT_FOR_BOTH"}

\* the Python value None where a string is expected
None == "None"
\* the Python value None passed for retries, timeout or sleep
NoneArg == -1
\* a ledger value the call has not read
NotRead == -1

(* ------------------------------ state ---------------------------------- *)
VARIABLES
    args,               \* the arguments of marketplace_interact
    pc,                 \* position of the call
    outcome,            \* how the call ended: running, data, None, exit, raise
    chain_id,           \* ledger_config.chain_id
    mech_marketplace_contract, \* mech_config.mech_marketplace_contract
    private_key_file,   \* whether the file at private_key_path exists: unread, missing, present
    payment_type,       \* mech_contract.paymentType()
    max_delivery_rate,  \* mech_contract.maxDeliveryRate()
    price,              \* the local price of marketplace_interact
    user_token_balance, \* approve_price_tokens: token_contract.balanceOf(sender)
    requester_balance,  \* the balance read by a pre-flight check
    approve_value,      \* _value of the approve transaction
    tx_value,           \* tx_args["value"] of the request transaction
    tries,              \* the submitter's local tries
    deadline,           \* the submitter's local deadline
    now,                \* what datetime.now().timestamp() gives the submitter next
    response,           \* what the submitter returned
    nonce,              \* mapNonces(crypto.address) as the latest off-chain attempt read it
    signed_request_id,  \* request_id_int of the latest off-chain attempt
    request_id,         \* the request id the wait is keyed by
    tasks,              \* wait_for_marketplace_data_url: the task list
    taskState,          \* state of each watch task
    data_url,           \* result of the wait
    submitted,          \* number of attempts that submitted a request
    poll_response,      \* wait_for_offchain_marketplace_data: what the latest query gave
    poll_waited,        \* seconds the poller has slept since its latest query
    calls               \* the externally visible operations made so far

vars == <<args, pc, outcome, chain_id, mech_marketplace_contract, private_key_file, payment_type, max_delivery_rate, price,
          user_token_balance, requester_balance, approve_value, tx_value, tries,
          deadline, now, response, nonce, signed_request_id, request_id,
          tasks, taskState, data_url, submitted, poll_response, poll_waited, calls>>

\* the variables an action names are all that may change
Only(changed) ==
    /\ IF "args" \in changed THEN TRUE ELSE UNCHANGED args
    /\ IF "pc" \in changed THEN TRUE ELSE UNCHANGED pc
    /\ IF "outcome" \in changed THEN TRUE ELSE UNCHANGED outcome
    /\ IF "chain_id" \in changed THEN TRUE ELSE UNCHANGED chain_id
    /\ IF "mech_marketplace_contract" \in changed
         THEN TRUE ELSE UNCHANGED mech_marketplace_contract
    /\ IF "private_key_file" \in changed THEN TRUE ELSE UNCHANGED private_key_file
    /\ IF "payment_type" \in changed THEN TRUE ELSE UNCHANGED payment_type
    /\ IF "max_delivery_rate" \in changed THEN TRUE ELSE UNCHANGED max_delivery_rate
    /\ IF "price" \in changed THEN TRUE ELSE UNCHANGED price
    /\ IF "user_token_balance" \in changed THEN TRUE ELSE UNCHANGED user_token_balance
    /\ IF "requester_balance" \in changed THEN TRUE ELSE UNCHANGED requester_balance
    /\ IF "approve_value" \in changed THEN TRUE ELSE UNCHANGED approve_value
    /\ IF "tx_value" \in changed THEN TRUE ELSE UNCHANGED tx_value
    /\ IF "tries" \in changed THEN TRUE ELSE UNCHANGED tries
    /\ IF "deadline" \in changed THEN TRUE ELSE UNCHANGED deadline
    /\ IF "now" \in changed THEN TRUE ELSE UNCHANGED now
    /\ IF "response" \in changed THEN TRUE ELSE UNCHANGED response
    /\ IF "nonce" \in changed THEN TRUE ELSE UNCHANGED nonce
    /\ IF "signed_request_id" \in changed THEN TRUE ELSE UNCHANGED signed_request_id
    /\ IF "request_id" \in changed THEN TRUE ELSE UNCHANGED request_id
    /\ IF "tasks" \in changed THEN TRUE ELSE UNCHANGED tasks
    /\ IF "taskState" \in changed THEN TRUE ELSE UNCHANGED taskState
    /\ IF "data_url" \in changed THEN TRUE ELSE UNCHANGED data_url
    /\ IF "submitted" \in changed THEN TRUE ELSE UNCHANGED submitted
    /\ IF "poll_response" \in changed THEN TRUE ELSE UNCHANGED poll_response
    /\ IF "poll_waited" \in changed THEN TRUE ELSE UNCHANGED poll_waited
    /\ IF "calls" \in changed THEN TRUE ELSE UNCHANGED calls

\* the externally visible operations of the call
LedgerReads ==
    {"paymentType", "maxDeliveryRate", "serviceId", "mapPaymentTypeBalanceTrackers",
     "token_balanceOf", "mapRequesterBalances", "subscriptionNFT", "subscriptionTokenId",
     "nft_balanceOf", "mapNonces", "getRequestId"}
ApproveOps == {"build_approve", "sign_approve", "send_approve", "wait_for_receipt"}
RequestOps == {"build_request", "sign_request", "send_request"}
EnvelopeOps == {"sign_message", "post_envelope"}
WaitOps ==
    {"watch_for_marketplace_request_id", "create_task_on_chain", "create_task_off_chain",
     "fetch_offchain_info"}
OtherOps ==
    {"wss_connect", "verify_or_retrieve_tool", "register_event_handlers",
     "push_metadata_to_ipfs", "sleep", "get_data"}
Ops == LedgerReads \cup ApproveOps \cup RequestOps \cup EnvelopeOps \cup WaitOps \cup OtherOps

\* calls once the operations in ops are made
Made(ops) == calls \cup ops

\* `x or default` of Python: None and 0 are both falsy
OrDefault(x, default) == IF x = NoneArg \/ x = 0 THEN default ELSE x

\* the retry ceiling, timeout and backoff the submission loop uses
EffRetries == OrDefault(args.retries, MAX_RETRIES)
EffTimeout == OrDefault(args.timeout, TIMEOUT)
EffSleep == OrDefault(args.sleep, WAIT_SLEEP)

Channels == {"on_chain", "off_chain"}

\* the submitter returned None (or has not returned)
NoResponse == [kind |-> "None", request_id |-> 0]

\* the arguments of a call; the off-chain branch never reads confirmation_type,
\* so an off-chain call is taken with the default of that parameter
Arguments ==
    {a \in [use_prepaid : BOOLEAN,
            use_offchain : BOOLEAN,
            confirmation_type : ConfirmationType,
            retries : {NoneArg} \cup (0..MaxRetriesArg),
            timeout : {NoneArg} \cup (0..MaxTimeoutArg),
            sleep : {NoneArg} \cup (0..MaxSleepArg)] :
        a.use_offchain => a.confirmation_type = "WAIT_FOR_BOTH"}

Init ==
    /\ args \in Arguments
    /\ pc = "get_mech_config"
    /\ outcome = "running"
    /\ chain_id = 0
    /\ mech_marketplace_contract = None
    /\ private_key_file = "unread"
    /\ payment_type = None
    /\ max_delivery_rate = NotRead
    /\ price = NotRead
    /\ user_token_balance = NotRead
    /\ requester_balance = NotRead
    /\ approve_value = NotRead
    /\ tx_value = NotRead
    /\ tries = 0
    /\ deadline = 0
    /\ now = 0
    /\ response = NoResponse
    /\ nonce = NotRead
    /\ signed_request_id = 0
    /\ request_id = 0
    /\ tasks = {}
    /\ taskState = [c \in Channels |-> "absent"]
    /\ data_url = None
    /\ submitted = 0
    /\ poll_response = None
    /\ poll_waited = 0
    /\ calls = {}

\* the call ends with the given outcome
Finish(o) ==
    /\ pc' = "done"
    /\ outcome' = o

\* the call goes on at the given position
Goto(p) ==
    /\ pc' = p
    /\ outcome' = outcome

(* ------------------ configuration, key, connection --------------------- *)
\* a zero-address test that lets every address through
NotYetSupportedNever(address) == FALSE

\* `if mech_marketplace_contract == ADDRESS_ZERO`
NotYetSupported(address) == address = ADDRESS_ZERO

\* get_mech_config, the zero-address test and the per-chain defaults
GetMechConfig ==
    /\ pc = "get_mech_config"
    /\ \E c \in {1, 100}, m \in {ADDRESS_ZERO, MARKETPLACE_ADDRESS} :
        /\ chain_id' = c
        /\ mech_marketplace_contract' = m
        /\ IF NotYetSupported(m)
             THEN Finish("None")
             ELSE IF c \notin CHAIN_TO_DEFAULT_MECH_MARKETPLACE_REQUEST_CONFIG
                    THEN Finish("raise")
                    ELSE Goto("private_key")
    /\ Only({"pc", "outcome", "chain_id", "mech_marketplace_contract"})

\* the private key file must exist
CheckPrivateKey ==
    /\ pc = "private_key"
    /\ \E file \in {"missing", "present"} :
        /\ private_key_file' = file
        /\ IF file = "present" THEN Goto("connect") ELSE Finish("raise")
    /\ Only({"pc", "outcome", "private_key_file"})

\* websocket.create_connection, crypto, ledger api, marketplace contract
Connect ==
    /\ pc = "connect"
    /\ calls' = Made({"wss_connect"})
    /\ \E ok \in BOOLEAN :
        IF ok THEN Goto("fetch_mech_info") ELSE Finish("raise")
    /\ Only({"pc", "outcome", "calls"})

(* ----------------------- mech info resolution -------------------------- *)
\* the ledger reads of fetch_mech_info, in program order
MechInfoReads ==
    <<"paymentType", "maxDeliveryRate", "serviceId", "mapPaymentTypeBalanceTrackers">>

\* a payment type test that lets every declared type through
SupportedPaymentTypesAny ==
    {PAYMENT_TYPE_NATIVE, PAYMENT_TYPE_TOKEN, PAYMENT_TYPE_NVM, PAYMENT_TYPE_OTHER}

\* the payment types fetch_mech_info accepts
SupportedPaymentTypes == {PAYMENT_TYPE_NATIVE, PAYMENT_TYPE_TOKEN, PAYMENT_TYPE_NVM}

\* the payment types a mech contract may declare
DeclaredPaymentTypes == SupportedPaymentTypes \cup {PAYMENT_TYPE_OTHER}

\* fetch_mech_info: four reads, then the payment type test
FetchMechInfo ==
    /\ pc = "fetch_mech_info"
    /\ \/ \E failAt \in 1..Len(MechInfoReads) :
            /\ calls' = Made({MechInfoReads[i] : i \in 1..failAt})
            /\ Finish("raise")
            /\ UNCHANGED <<payment_type, max_delivery_rate>>
       \/ \E pt \in DeclaredPaymentTypes, rate \in 0..MaxRate :
            /\ calls' = Made({MechInfoReads[i] : i \in 1..Len(MechInfoReads)})
            /\ payment_type' = pt
            /\ max_delivery_rate' = rate
            /\ IF pt \notin SupportedPaymentTypes
                 THEN Finish("exit")
                 ELSE Goto("verify_tool")
    /\ Only({"pc", "outcome", "payment_type", "max_delivery_rate", "calls"})

\* verify_or_retrieve_tool
VerifyOrRetrieveTool ==
    /\ pc = "verify_tool"
    /\ calls' = Made({"verify_or_retrieve_tool"})
    /\ Goto("register")
    /\ Only({"pc", "outcome", "calls"})

\* a call that goes on without registering its event handlers
RegisterEventHandlersSkipped ==
    /\ pc = "register"
    /\ Goto("payment")
    /\ Only({"pc", "outcome"})

\* get_event_signatures and register_event_handlers
RegisterEventHandlers ==
    /\ pc = "register"
    /\ calls' = Made({"register_event_handlers"})
    /\ Goto("payment")
    /\ Only({"pc", "outcome", "calls"})

(* --------------------------- payment pre-flight ------------------------ *)
\* a balance test that never finds the balance low
BalanceLowNever(balance, needed) == FALSE

\* a balance is too low for what is needed
BalanceLow(balance, needed) == balance < needed

\* the price of a prepaid call
PricePrepaid(rate) == 0

\* a call that is not prepaid priced as a prepaid one
PriceNotPrepaidAsPrepaid(rate) == PricePrepaid(rate)

\* the price of a call that is not prepaid, before any approval
PriceNotPrepaid(rate) == rate

\* a price left as it is after the approval
PriceAfterApproveKept(p) == p

\* the price once the token allowance is granted
PriceAfterApprove(p) == 0

\* the price once the subscription balance is checked
PriceAfterNvm(p) == 0

\* the branch on use_prepaid
ResolvePayment ==
    /\ pc = "payment"
    /\ IF ~args.use_prepaid
         THEN /\ price' = PriceNotPrepaid(max_delivery_rate)
              /\ Goto(IF payment_type = PAYMENT_TYPE_TOKEN THEN "approve" ELSE "nvm")
         ELSE /\ price' = PricePrepaid(max_delivery_rate)
              /\ Goto("check_prepaid")
    /\ Only({"pc", "outcome", "price"})

\* an allowance grant whose receipt is not awaited
ApproveCallsUnawaited(out) ==
    IF out = "build_raise" THEN {"build_approve"}
                           ELSE {"build_approve", "sign_approve", "send_approve"}

\* the operations of the allowance grant for each way it can go; the receipt is
\* awaited by the caller once a digest is returned
ApproveCalls(out) ==
    CASE out = "build_raise" -> {"build_approve"}
      [] out \in {"send_raise", "no_digest"} -> {"build_approve", "sign_approve", "send_approve"}
      [] out = "ok" -> ApproveOps

\* approve_price_tokens, the test of its digest and wait_for_receipt
ApprovePriceTokens ==
    /\ pc = "approve"
    /\ IF chain_id \notin CHAIN_TO_WRAPPED_TOKEN
         THEN /\ Finish("raise")
              /\ UNCHANGED <<price, user_token_balance, approve_value, calls>>
         ELSE \E b \in 0..MaxBalance :
                /\ user_token_balance' = b
                /\ IF BalanceLow(b, price)
                     THEN /\ calls' = Made({"token_balanceOf"})
                          /\ Finish("exit")
                          /\ UNCHANGED <<price, approve_value>>
                     ELSE \E out \in {"build_raise", "send_raise", "no_digest", "ok"} :
                            /\ calls' = Made({"token_balanceOf"} \cup ApproveCalls(out))
                            /\ approve_value' = price
                            /\ IF out = "ok"
                                 THEN /\ price' = PriceAfterApprove(price)
                                      /\ Goto("nvm")
                                 ELSE /\ price' = price
                                      /\ Finish(IF out = "no_digest" THEN "None" ELSE "raise")
    /\ Only({"pc", "outcome", "price", "user_token_balance", "approve_value", "calls"})

\* check_prepaid_balances
CheckPrepaidBalances ==
    /\ pc = "check_prepaid"
    /\ IF payment_type \in {PAYMENT_TYPE_NATIVE, PAYMENT_TYPE_TOKEN}
         THEN \E b \in 0..MaxBalance :
                /\ requester_balance' = b
                /\ calls' = Made({"mapRequesterBalances"})
                /\ IF BalanceLow(b, max_delivery_rate)
                     THEN Finish("exit")
                     ELSE Goto("nvm")
         ELSE /\ Goto("nvm")
              /\ UNCHANGED <<requester_balance, calls>>
    /\ Only({"pc", "outcome", "requester_balance", "calls"})

\* the subscription branch of marketplace_interact
CheckNvmSubscription ==
    /\ pc = "nvm"
    /\ IF payment_type = PAYMENT_TYPE_NVM
         THEN \E b \in 0..MaxBalance :
                /\ requester_balance' = b
                /\ calls' = Made({"subscriptionNFT", "subscriptionTokenId", "nft_balanceOf"})
                /\ IF BalanceLow(b, price)
                     THEN Finish("exit") /\ price' = price
                     ELSE price' = PriceAfterNvm(price) /\ Goto("submit")
         ELSE /\ Goto("submit")
              /\ UNCHANGED <<requester_balance, calls, price>>
    /\ Only({"pc", "outcome", "requester_balance", "price", "calls"})

(* ------------------------ request submission --------------------------- *)
\* a loop condition that allows one attempt more than the ceiling
LoopContinuesOffByOne == tries <= EffRetries /\ now < deadline

\* the loop condition of both submitters
LoopContinues == tries < EffRetries /\ now < deadline

\* a failed attempt that is retried at once
SleepTimeNone == EffSleep * 0

\* time spent in time.sleep after a failed attempt
SleepTime == EffSleep

\* a loop that goes on after a successful attempt
AfterAttemptKeepsLooping(out, loop, sent) == loop

\* where a submitter goes after an attempt that ended the given way
AfterAttempt(out, loop, sent) == IF out = "ok" THEN sent ELSE loop

\* what send_marketplace_request hands back when an attempt succeeded
Digest == [kind |-> "digest", request_id |-> 0]

\* the operations one on-chain attempt makes for each way it can go
RequestCalls(out) ==
    CASE out = "build_raise" -> {"build_request", "sleep"}
      [] out = "send_raise" -> {"build_request", "sign_request", "send_request", "sleep"}
      [] out = "ok" -> RequestOps

\* the branch test taken the wrong way round
OnchainBranchInverted == args.use_offchain

\* `if not use_offchain`: the on-chain branch is taken, and it returns in every case
OnchainBranch == ~args.use_offchain

\* send_marketplace_request up to the loop: metadata upload, tx_args, deadline
EnterSendMarketplaceRequest ==
    /\ pc = "submit"
    /\ OnchainBranch
    /\ calls' = Made({"push_metadata_to_ipfs"})
    /\ tx_value' = price
    /\ tries' = 0
    /\ deadline' = now + EffTimeout
    /\ Goto("loop_onchain")
    /\ Only({"pc", "outcome", "calls", "tx_value", "tries", "deadline"})

\* one iteration of the loop of send_marketplace_request
AttemptOnchain ==
    /\ pc = "loop_onchain"
    /\ LoopContinues
    /\ tries' = tries + 1
    /\ \/ /\ calls' = Made(RequestCalls("ok"))
          /\ response' = Digest
          /\ submitted' = submitted + 1
          /\ now' = now
          /\ Goto(AfterAttempt("ok", "loop_onchain", "sent_onchain"))
       \/ \E out \in {"build_raise", "send_raise"}, d \in 0..MaxAttemptTime :
            /\ calls' = Made(RequestCalls(out))
            /\ now' = now + d + SleepTime
            /\ UNCHANGED <<response, submitted>>
            /\ Goto(AfterAttempt(out, "loop_onchain", "sent_onchain"))
    /\ Only({"pc", "outcome", "tries", "calls", "now", "response", "submitted"})

\* a caller that does not test the digest and goes on to the receipt
ExhaustOnchainUntested ==
    /\ pc = "loop_onchain"
    /\ ~(tries < EffRetries /\ now < deadline)
    /\ response' = NoResponse
    /\ Goto("sent_onchain")
    /\ Only({"pc", "outcome", "response"})

\* the loop of send_marketplace_request ends without a digest; the caller returns None
ExhaustOnchain ==
    /\ pc = "loop_onchain"
    /\ ~LoopContinues
    /\ response' = NoResponse
    /\ Finish("None")
    /\ Only({"pc", "outcome", "response"})

\* the values of one byte
ByteRange == 256

\* the bytes read with the first byte the most significant
RECURSIVE BigEndian(_)
BigEndian(bytes) ==
    IF bytes = <<>> THEN 0
                    ELSE BigEndian(SubSeq(bytes, 1, Len(bytes) - 1)) * ByteRange + bytes[Len(bytes)]

\* the bytes read with the first byte the least significant
RECURSIVE LittleEndian(_)
LittleEndian(bytes) ==
    IF bytes = <<>> THEN 0
                    ELSE bytes[1] + ByteRange * LittleEndian(Tail(bytes))

\* a conversion that reads the bytes from the wrong end
IntFromBytesOtherEnd(bytes, byteorder) ==
    IF byteorder = "big" THEN LittleEndian(bytes) ELSE BigEndian(bytes)

\* int.from_bytes(bytes, byteorder=...)
IntFromBytes(bytes, byteorder) ==
    IF byteorder = "big" THEN BigEndian(bytes) ELSE LittleEndian(bytes)

\* the bytes the marketplace contract computes as request id: within a call the
\* mech, the requester, the request data, the rate and the payment type are fixed
\* before the loop, so the id is a function of the account nonce alone
getRequestId(n) == <<0, n + 1>>

\* the request ids of the model
RequestIds == 1..(MaxNonce + 1)

\* what the direct endpoint may answer to an envelope
Responses ==
    {[kind |-> "ack", request_id |-> r] : r \in RequestIds}
        \cup {[kind |-> "empty", request_id |-> 0], [kind |-> "no_request_id", request_id |-> 0]}

\* the operations one off-chain attempt makes for each way it can go
OffchainCalls(out) ==
    CASE out = "read_raise" -> {"mapNonces", "sleep"}
      [] out = "post_raise" -> {"mapNonces", "getRequestId", "sign_message", "post_envelope",
                                "sleep"}
      [] out = "ok" -> {"mapNonces", "getRequestId", "sign_message", "post_envelope"}

\* send_offchain_marketplace_request up to the loop: local hash, deadline
EnterSendOffchainMarketplaceRequest ==
    /\ pc = "submit"
    /\ ~OnchainBranch
    /\ tries' = 0
    /\ deadline' = now + EffTimeout
    /\ Goto("loop_offchain")
    /\ Only({"pc", "outcome", "tries", "deadline"})

\* one iteration of the loop of send_offchain_marketplace_request
AttemptOffchain ==
    /\ pc = "loop_offchain"
    /\ LoopContinues
    /\ tries' = tries + 1
    /\ \/ \E n \in 0..MaxNonce, r \in Responses :
            /\ calls' = Made(OffchainCalls("ok"))
            /\ nonce' = n
            /\ signed_request_id' = IntFromBytes(getRequestId(n), "big")
            /\ response' = r
            /\ submitted' = submitted + 1
            /\ now' = now
            /\ Goto(AfterAttempt("ok", "loop_offchain", "sent_offchain"))
       \/ \E n \in 0..MaxNonce, d \in 0..MaxAttemptTime :
            /\ calls' = Made(OffchainCalls("post_raise"))
            /\ nonce' = n
            /\ signed_request_id' = IntFromBytes(getRequestId(n), "big")
            /\ now' = now + d + SleepTime
            /\ UNCHANGED <<response, submitted>>
            /\ Goto(AfterAttempt("post_raise", "loop_offchain", "sent_offchain"))
       \/ \E d \in 0..MaxAttemptTime :
            /\ calls' = Made(OffchainCalls("read_raise"))
            /\ now' = now + d + SleepTime
            /\ UNCHANGED <<nonce, signed_request_id, response, submitted>>
            /\ Goto(AfterAttempt("read_raise", "loop_offchain", "sent_offchain"))
    /\ Only({"pc", "outcome", "tries", "calls", "nonce", "signed_request_id",
             "now", "response", "submitted"})

\* the loop of send_offchain_marketplace_request ends without a response; the caller returns None
ExhaustOffchain ==
    /\ pc = "loop_offchain"
    /\ ~LoopContinues
    /\ response' = NoResponse
    /\ Finish("None")
    /\ Only({"pc", "outcome", "response"})

(* ---------------------------- delivery wait ---------------------------- *)
\* the submitter has returned: its locals are gone
SubmitterFrameDropped ==
    /\ tries' = 0
    /\ deadline' = 0
    /\ now' = 0

\* watch_for_marketplace_request_id: the request id of the mined request
WatchForMarketplaceRequestId ==
    /\ pc = "sent_onchain"
    /\ calls' = Made({"watch_for_marketplace_request_id"})
    /\ \E r \in RequestIds : request_id' = r
    /\ SubmitterFrameDropped
    /\ Goto("wait")
    /\ Only({"pc", "outcome", "calls", "request_id", "tries", "deadline", "now"})

\* the watch tasks wait_for_marketplace_data_url creates for a confirmation type
WatchTasks(confirmation_type) ==
    (IF confirmation_type \in {"OFF_CHAIN", "WAIT_FOR_BOTH"} THEN {} ELSE {})
        \cup (IF confirmation_type \in {"ON_CHAIN", "WAIT_FOR_BOTH"} THEN {"on_chain"} ELSE {})

\* the operation that creates the task of a channel
CreateTask(c) == IF c = "on_chain" THEN "create_task_on_chain" ELSE "create_task_off_chain"

\* wait_for_marketplace_data_url up to run_until_complete; asyncio.wait rejects an empty list
WaitForMarketplaceDataUrl ==
    /\ pc = "wait"
    /\ tasks' = WatchTasks(args.confirmation_type)
    /\ taskState' = [c \in Channels |-> IF c \in tasks' THEN "pending" ELSE "absent"]
    /\ calls' = Made({CreateTask(c) : c \in tasks'})
    /\ IF tasks' = {} THEN Finish("raise") ELSE Goto("waiting")
    /\ Only({"pc", "outcome", "tasks", "taskState", "calls"})

\* a watch task returns: with the location of the delivered result, or with nothing
WatchDelivers ==
    /\ pc = "waiting"
    /\ \E t \in tasks, result \in {"delivered", "empty"} :
        /\ taskState[t] = "pending"
        /\ taskState' = [taskState EXCEPT ![t] = result]
    /\ Only({"taskState"})

\* a watch task ends with an error of its transport
WatchFails ==
    /\ pc = "waiting"
    /\ \E t \in tasks :
        /\ taskState[t] = "pending"
        /\ taskState' = [taskState EXCEPT ![t] = "failed"]
    /\ Only({"taskState"})

\* asyncio.wait taken to return whether or not a task has completed
DoneWithoutWaiting == tasks

\* the first set asyncio.wait returns: the tasks that have completed, by a result or by an error
Done == {t \in tasks : taskState[t] # "pending"}

\* the second set asyncio.wait returns: the tasks still pending
Unfinished == tasks \ Done

\* the state of the tasks once the unfinished ones are cancelled and awaited
CancelUnfinished == [c \in Channels |-> IF c \in Unfinished THEN "cancelled" ELSE taskState[c]]

\* a result taken for a location whatever it is
LocatedAlways(result) == result # "failed"

\* `if data_url:` on what the waiter returned
Located(result) == result = "delivered"

\* _wait_for_tasks from the return of asyncio.wait on; result() raises the error of a
\* failed task, and the caller returns None when what it got is no location
WaitForTasks ==
    /\ pc = "waiting"
    /\ \E finished \in Done :
        /\ taskState' = CancelUnfinished
        /\ CASE taskState[finished] = "failed" -> Finish("raise") /\ data_url' = data_url
             [] Located(taskState[finished]) -> data_url' = finished /\ Goto("get_data")
             [] OTHER -> Finish("None") /\ data_url' = data_url
    /\ Only({"pc", "outcome", "taskState", "data_url"})

\* the payload fetch of the on-chain branch
GetData ==
    /\ pc = "get_data"
    /\ calls' = Made({"get_data"})
    /\ \E ok \in BOOLEAN : Finish(IF ok THEN "data" ELSE "raise")
    /\ Only({"pc", "outcome", "calls"})

\* a request id left as it was before the response
RequestIdNotTaken(r) == request_id

\* the request id the client computed itself taken in place of the acknowledged one
RequestIdComputedLocally(r) == signed_request_id

\* response["request_id"] of an acknowledgment
RequestIdOf(r) == r.request_id

\* the test of the off-chain response and the request id taken from it
TakeOffchainRequestId ==
    /\ pc = "sent_offchain"
    /\ CASE response.kind = "empty" -> Finish("None") /\ request_id' = request_id
         [] response.kind = "no_request_id" -> Finish("raise") /\ request_id' = request_id
         [] response.kind = "ack" -> request_id' = RequestIdOf(response) /\ Goto("poll")
    /\ SubmitterFrameDropped
    /\ Only({"pc", "outcome", "request_id", "tries", "deadline", "now"})

\* time.sleep(1) of the poller
PollInterval == 1

\* what one query of the fetch endpoint can give: an empty body, an error, a payload
PollResults == {"empty", "raise", "data"}

\* the query of one iteration of wait_for_offchain_marketplace_data
PollOffchain ==
    /\ pc = "poll"
    /\ calls' = Made({"fetch_offchain_info"})
    /\ \E out \in PollResults : poll_response' = out
    /\ poll_waited' = 0
    /\ Goto("polled")
    /\ Only({"pc", "outcome", "calls", "poll_response", "poll_waited"})

\* a response returned whatever it holds
TruthyAlways(r) == r # "raise"

\* `if response:` of the poller
Truthy(r) == r = "data"

\* the seconds the poller sleeps after a query: only the handler of an error sleeps
SleepAfterPoll(r) == IF r = "raise" THEN PollInterval ELSE 0

\* the rest of the iteration: return the response, or sleep in the handler, and loop
AfterPoll ==
    /\ pc = "polled"
    /\ IF Truthy(poll_response)
         THEN /\ data_url' = "off_chain"
              /\ Goto("get_offchain_data")
              /\ poll_waited' = poll_waited
         ELSE /\ poll_waited' = SleepAfterPoll(poll_response)
              /\ data_url' = data_url
              /\ Goto("poll")
    /\ Only({"pc", "outcome", "data_url", "poll_waited"})

\* the payload fetch of the off-chain branch
GetOffchainData ==
    /\ pc = "get_offchain_data"
    /\ calls' = Made({"get_data"})
    /\ \E ok \in BOOLEAN : Finish(IF ok THEN "data" ELSE "raise")
    /\ Only({"pc", "outcome", "calls"})

Next ==
    \/ GetMechConfig
    \/ CheckPrivateKey
    \/ Connect
    \/ FetchMechInfo
    \/ VerifyOrRetrieveTool
    \/ RegisterEventHandlers
    \/ ResolvePayment
    \/ ApprovePriceTokens
    \/ CheckPrepaidBalances
    \/ CheckNvmSubscription
    \/ EnterSendMarketplaceRequest
    \/ AttemptOnchain
    \/ ExhaustOnchain
    \/ EnterSendOffchainMarketplaceRequest
    \/ AttemptOffchain
    \/ ExhaustOffchain
    \/ WatchForMarketplaceRequestId
    \/ WaitForMarketplaceDataUrl
    \/ WatchDelivers
    \/ WatchFails
    \/ WaitForTasks
    \/ GetData
    \/ TakeOffchainRequestId
    \/ PollOffchain
    \/ AfterPoll
    \/ GetOffchainData

Spec == Init /\ [][Next]_vars

\* the poller is sequential code: once a query has answered, the rest of the
\* iteration runs. Nothing makes a query answer, so queries get no fairness.
FairSpec == Spec /\ WF_vars(AfterPoll)

(* ------------------------------ properties ----------------------------- *)
\* operations that build, sign or send a transaction
TransactionOps == ApproveOps \cup RequestOps

\* operations of a request submission: the request transaction or the signed envelope
SubmissionOps == RequestOps \cup EnvelopeOps

\* operations of the delivery wait and of the payload fetch
DeliveryOps == WaitOps \cup {"get_data"}

\* positions inside the loop of a submitter
LoopPositions == {"loop_onchain", "loop_offchain"}

\* the call ended inside a submitter: its loop was left without a successful attempt
Exhausted == pc = "done" /\ deadline > 0

\* ceil(t / b) for positive b
CeilDiv(t, b) == (t + b - 1) \div b

\* the balance the payment model of the call stands on was read and is below the
\* max delivery rate (a call that is not prepaid reads no balance for the native model)
StandingBalanceLow ==
    \/ /\ args.use_prepaid
       /\ payment_type \in {PAYMENT_TYPE_NATIVE, PAYMENT_TYPE_TOKEN}
       /\ requester_balance # NotRead
       /\ requester_balance < max_delivery_rate
    \/ /\ ~args.use_prepaid
       /\ payment_type = PAYMENT_TYPE_TOKEN
       /\ user_token_balance # NotRead
       /\ user_token_balance < max_delivery_rate
    \/ /\ payment_type = PAYMENT_TYPE_NVM
       /\ requester_balance # NotRead
       /\ requester_balance < max_delivery_rate

\* C1: for every supported payment type, prepaid or not, a standing balance below
\* the max delivery rate rejects the call before any submission operation: no
\* request transaction is built, signed or sent and no envelope is signed or posted.
C1_RejectedBeforeSubmission ==
    StandingBalanceLow => calls \cap SubmissionOps = {}

\* C2: in a prepaid call of the native or token model, a deposited balance below
\* the max delivery rate ends the call with a failure and without any transaction
\* or envelope; a submission is only ever made after the check has passed.
C2_PrepaidBalanceChecked ==
    (args.use_prepaid /\ payment_type \in {PAYMENT_TYPE_NATIVE, PAYMENT_TYPE_TOKEN}) =>
        /\ (requester_balance # NotRead /\ requester_balance < max_delivery_rate) =>
              /\ pc = "done"
              /\ outcome = "exit"
              /\ calls \cap (TransactionOps \cup EnvelopeOps) = {}
        /\ calls \cap (TransactionOps \cup EnvelopeOps) # {} =>
              /\ "mapRequesterBalances" \in calls
              /\ requester_balance >= max_delivery_rate

\* C2 witness: a prepaid native or token call rejected for its deposited balance
C2_Witness ==
    /\ args.use_prepaid
    /\ payment_type \in {PAYMENT_TYPE_NATIVE, PAYMENT_TYPE_TOKEN}
    /\ requester_balance # NotRead
    /\ requester_balance < max_delivery_rate
    /\ outcome = "exit"

\* C3 as claimed: an unsupported payment type ends the call with no network call
\* after the read of the payment type.
C3_NoCallBeyondPaymentTypeRead ==
    payment_type = PAYMENT_TYPE_OTHER =>
        /\ pc = "done"
        /\ outcome = "exit"
        /\ calls \subseteq {"wss_connect", "paymentType"}

\* C3 amended: an unsupported payment type ends the call at once, with no network
\* call but the connection and the four reads of fetch_mech_info; no balance check,
\* allowance grant, submission or delivery wait is reached.
C3_UnsupportedPaymentTypeFatal ==
    payment_type = PAYMENT_TYPE_OTHER =>
        /\ pc = "done"
        /\ outcome = "exit"
        /\ calls = {"wss_connect"} \cup {MechInfoReads[i] : i \in 1..Len(MechInfoReads)}
        /\ price = NotRead
        /\ requester_balance = NotRead
        /\ user_token_balance = NotRead

\* C3 witness: the mech declared an unsupported payment type and the call exited
C3_Witness == payment_type = PAYMENT_TYPE_OTHER /\ outcome = "exit"

\* C4: in both submitters the attempts of a call never exceed the retry ceiling,
\* and an attempt begins only while the time is strictly before the deadline, which
\* stays what it was at loop entry.
C4_AttemptsWithinCeilingAndDeadline ==
    /\ [](tries <= EffRetries)
    /\ [][tries' > tries =>
            /\ pc \in LoopPositions
            /\ tries < EffRetries
            /\ now < deadline
            /\ deadline' = deadline
            /\ deadline = EffTimeout]_vars

\* C4 witness: the off-chain loop stopped by the ceiling after several attempts
C4_Witness == pc = "loop_offchain" /\ tries = EffRetries /\ tries >= 2

\* C5: with timeout T and backoff B a submitter makes at most ceil(T/B) attempts,
\* and no attempt starts once T has elapsed since loop entry.
C5_AtMostCeilAttempts ==
    /\ [](tries <= CeilDiv(EffTimeout, EffSleep))
    /\ [][tries' > tries => now - (deadline - EffTimeout) < EffTimeout]_vars

\* C5 witness: the loop stopped by the deadline, at ceil(T/B) attempts, below the ceiling
C5_Witness ==
    /\ pc \in LoopPositions
    /\ tries = CeilDiv(EffTimeout, EffSleep)
    /\ tries < EffRetries
    /\ now >= deadline

\* C6 as claimed: exhaustion gives no identifier, no wait and no fetch, and the
\* result the caller gets tells exhaustion apart from every other ending.
C6_ExhaustionDistinct ==
    /\ Exhausted => outcome = "None" /\ response = NoResponse
    /\ outcome = "None" => Exhausted

\* C6 amended: a loop left without a successful attempt gives no identifier, and the
\* call then returns None with no request id, no delivery wait and no payload fetch;
\* nothing after the submitter runs without a response.
C6_ExhaustionReturnsNone ==
    /\ Exhausted =>
          /\ outcome = "None"
          /\ response = NoResponse
          /\ ~LoopContinues
          /\ submitted = 0
          /\ request_id = 0
          /\ tasks = {}
          /\ calls \cap DeliveryOps = {}
    /\ pc \in {"sent_onchain", "sent_offchain", "wait", "waiting", "get_data", "poll", "polled",
               "get_offchain_data"} => response # NoResponse

\* C6 witness: the on-chain loop was left after failed attempts only
C6_Witness == Exhausted /\ ~args.use_offchain /\ tries >= 2 /\ outcome = "None"

\* C7: the first successful attempt ends the loop: no attempt, sleep or send
\* follows it, at most one request is submitted per call, and what the submitter
\* returns is what that attempt got.
C7_FirstSuccessEndsLoop ==
    /\ [](submitted <= 1)
    /\ [][/\ submitted' > submitted => response' # NoResponse /\ pc' \notin LoopPositions
          /\ submitted = 1 =>
                /\ submitted' = 1
                /\ tries' <= tries
                /\ now' <= now
                /\ response' = response
                /\ calls' \cap (SubmissionOps \cup {"sleep", "mapNonces", "getRequestId"})
                      \subseteq calls]_vars

\* C7 witness: an attempt succeeded after a failed one
C7_Witness == submitted = 1 /\ tries >= 2 /\ pc = "sent_onchain"

\* C8 as claimed: the request transaction carries the max delivery rate unless the
\* payment type is token or subscription, for which it carries zero.
C8_ValueByPaymentTypeOnly ==
    "build_request" \in calls =>
        tx_value = IF payment_type \in {PAYMENT_TYPE_TOKEN, PAYMENT_TYPE_NVM}
                     THEN 0
                     ELSE max_delivery_rate

\* C8 amended: the request transaction carries the max delivery rate only in a call
\* that is not prepaid to a native mech; for the token and subscription types, and
\* in every prepaid call, it carries zero.
C8_ValueOfRequest ==
    "build_request" \in calls =>
        tx_value = IF ~args.use_prepaid /\ payment_type = PAYMENT_TYPE_NATIVE
                     THEN max_delivery_rate
                     ELSE 0

\* C8 witness: a prepaid request to a native mech with a positive rate, built with value zero
C8_Witness ==
    /\ "build_request" \in calls
    /\ args.use_prepaid
    /\ payment_type = PAYMENT_TYPE_NATIVE
    /\ max_delivery_rate > 0
    /\ tx_value = 0

\* C9: with WAIT_FOR_BOTH the wait starts an on-chain watch and an off-chain watch
\* before it blocks.
C9_BothWatchesStarted ==
    (pc = "waiting" /\ args.confirmation_type = "WAIT_FOR_BOTH") => tasks = Channels

AfterWaiter == pc = "get_data" \/ (pc = "done" /\ tasks # {})

\* C11: once the waiter has returned, or raised, no watch task is pending: the watch
\* whose result it returns has completed, and every other watch it raced has been
\* cancelled and awaited and gave no result.
C11_NoPendingWatchAtReturn ==
    AfterWaiter =>
        /\ \A t \in tasks : taskState[t] # "pending"
        /\ pc = "get_data" =>
              /\ data_url \in tasks
              /\ taskState[data_url] = "delivered"
              /\ \A t \in tasks \ {data_url} : taskState[t] = "cancelled"

\* C11 witness: the waiter returned the result of the watch that completed
C11_Witness ==
    /\ pc = "get_data"
    /\ data_url = "on_chain"
    /\ taskState["on_chain"] = "delivered"

\* C12: with both channels eligible, the failure of one watch alone does not end the
\* wait: the waiter does not raise that failure while the other channel has given
\* neither a result nor a failure of its own.
C12_OneFailureNotTheOutcome ==
    (/\ args.confirmation_type = "WAIT_FOR_BOTH"
     /\ AfterWaiter
     /\ \E t \in Channels : taskState[t] = "failed")
        => \A t \in Channels : taskState[t] \in {"failed", "delivered"}
\* operations that start a delivery observation: a watch task or a poll
ObservationOps == {"create_task_on_chain", "create_task_off_chain", "fetch_offchain_info"}

\* positions of a call inside a delivery observation
ObservationPositions == {"waiting", "get_data", "poll", "polled", "get_offchain_data"}

\* C13: a delivery observation, the on-chain watch task or the off-chain poll, starts
\* only in a call whose submission has succeeded and whose request id has already
\* been taken from the result of that submission; none starts before or without one.
C13_ObservationAfterRequestId ==
    /\ []((calls \cap ObservationOps # {} \/ pc \in ObservationPositions) =>
            /\ submitted = 1
            /\ response # NoResponse
            /\ request_id \in RequestIds)
    /\ [][~(calls' \cap ObservationOps \subseteq calls) =>
            /\ submitted = 1
            /\ request_id \in RequestIds
            /\ request_id' = request_id]_vars

\* C13 witness: the off-chain poll runs for the request id of the acknowledgment
C13_Witness ==
    /\ pc = "poll"
    /\ "fetch_offchain_info" \in calls
    /\ request_id = response.request_id
    /\ request_id \in RequestIds
\* operations only the on-chain branch makes, and the positions of that branch
OnchainOnlyOps ==
    RequestOps \cup {"push_metadata_to_ipfs", "watch_for_marketplace_request_id",
                     "create_task_on_chain", "create_task_off_chain"}
OnchainPositions == {"loop_onchain", "sent_onchain", "wait", "waiting", "get_data"}

\* operations only the off-chain branch makes, and the positions of that branch
OffchainOnlyOps ==
    EnvelopeOps \cup {"mapNonces", "getRequestId", "fetch_offchain_info"}
OffchainPositions == {"loop_offchain", "sent_offchain", "poll", "polled", "get_offchain_data"}

\* C14: once the pre-flight has passed exactly one submitter can be entered, the
\* on-chain one when use_offchain is false and the off-chain one when it is true; an
\* on-chain call makes no operation of the off-chain branch (no envelope, no poll)
\* and an off-chain call none of the on-chain branch (no request transaction, no
\* watch task).
C14_ExactlyOneVariant ==
    /\ pc = "submit" =>
          /\ (ENABLED EnterSendMarketplaceRequest) = ~args.use_offchain
          /\ (ENABLED EnterSendOffchainMarketplaceRequest) = args.use_offchain
    /\ ~args.use_offchain =>
          /\ calls \cap OffchainOnlyOps = {}
          /\ pc \notin OffchainPositions
    /\ args.use_offchain =>
          /\ calls \cap OnchainOnlyOps = {}
          /\ pc \notin OnchainPositions
          /\ tasks = {}
    /\ submitted = 1 =>
          IF args.use_offchain THEN "post_envelope" \in calls ELSE "send_request" \in calls

\* C14 witness: an off-chain call that has posted its envelope and polled, with no
\* request transaction and no watch task
C14_Witness ==
    /\ args.use_offchain
    /\ pc = "get_offchain_data"
    /\ "post_envelope" \in calls
    /\ "fetch_offchain_info" \in calls
    /\ tasks = {}
\* C15: in a call that is not prepaid to a token mech, a wallet token balance below
\* the max delivery rate ends the call at the balance read: no transaction is built,
\* nothing is signed and nothing is sent, neither the allowance grant nor the request.
C15_LowWalletBalanceAbortsUnsigned ==
    (/\ ~args.use_prepaid
     /\ payment_type = PAYMENT_TYPE_TOKEN
     /\ user_token_balance # NotRead
     /\ user_token_balance < max_delivery_rate)
        => /\ pc = "done"
           /\ outcome = "exit"
           /\ calls \cap (TransactionOps \cup EnvelopeOps) = {}
           /\ approve_value = NotRead
           /\ submitted = 0

\* C15 witness: the wallet balance of a token call was read, found low, and the call exited
C15_Witness ==
    /\ ~args.use_prepaid
    /\ payment_type = PAYMENT_TYPE_TOKEN
    /\ "token_balanceOf" \in calls
    /\ user_token_balance < max_delivery_rate
    /\ outcome = "exit"
\* the call has entered a submitter
ReachedSubmission ==
    \/ pc \in OnchainPositions \cup OffchainPositions
    \/ Exhausted
    \/ calls \cap SubmissionOps # {}

\* a call that is not prepaid, to a token mech
TokenNotPrepaid == ~args.use_prepaid /\ payment_type = PAYMENT_TYPE_TOKEN

\* the allowance grant of the max delivery rate was sent and its receipt awaited
GrantSentAndAwaited ==
    /\ approve_value = max_delivery_rate
    /\ ApproveOps \subseteq calls
    /\ user_token_balance >= max_delivery_rate

\* C16 as claimed: a call that is not prepaid to a token mech and reaches submission
\* has sent the grant of the max delivery rate and awaited its receipt, and its
\* request is a transaction built with value zero whose delivery comes over the
\* on-chain channel.
C16_GrantThenZeroValueRequest ==
    (TokenNotPrepaid /\ ReachedSubmission) =>
        /\ GrantSentAndAwaited
        /\ submitted = 1 => "build_request" \in calls /\ tx_value = 0
        /\ data_url # None => data_url = "on_chain"

\* C16 amended: a call that is not prepaid to a token mech and reaches submission has
\* sent the grant of the max delivery rate and awaited its receipt before the first
\* attempt; an on-chain submission then builds the request with value zero and its
\* delivery comes from the on-chain watch, and an off-chain submission builds no
\* request transaction at all.
C16_GrantBeforeSubmission ==
    /\ [](TokenNotPrepaid /\ ReachedSubmission =>
            /\ GrantSentAndAwaited
            /\ IF args.use_offchain
                 THEN calls \cap RequestOps = {} /\ tx_value = NotRead
                 ELSE /\ tx_value = 0
                      /\ submitted = 1 => "build_request" \in calls
                      /\ data_url # None => data_url = "on_chain")
    /\ [][TokenNotPrepaid /\ tries' > tries => GrantSentAndAwaited]_vars

\* C16 witness: an on-chain token call with a positive rate, granted, submitted with
\* value zero and delivered by the on-chain watch
C16_Witness ==
    /\ TokenNotPrepaid
    /\ ~args.use_offchain
    /\ max_delivery_rate > 0
    /\ approve_value = max_delivery_rate
    /\ "wait_for_receipt" \in calls
    /\ "build_request" \in calls
    /\ tx_value = 0
    /\ pc = "get_data"
\* C17: for a subscription mech, prepaid or not, subscription units read through the
\* tracker and found below the max delivery rate end the call with a failure before
\* any submission attempt.
C17_LowSubscriptionRejected ==
    (/\ payment_type = PAYMENT_TYPE_NVM
     /\ {"subscriptionNFT", "subscriptionTokenId", "nft_balanceOf"} \subseteq calls
     /\ requester_balance < max_delivery_rate)
        => /\ pc = "done"
           /\ outcome = "exit"
           /\ submitted = 0
           /\ calls \cap (SubmissionOps \cup {"push_metadata_to_ipfs", "mapNonces"}) = {}
\* the ways a call can end: with the fetched data, or with no result (None is
\* returned, the process exits, or an error is raised)
TerminalOutcomes == {"data", "None", "exit", "raise"}

C19_FixedIntervalBetweenPolls ==
    [][(pc = "poll" /\ pc' = "polled" /\ poll_response # None)
          => poll_waited = PollInterval /\ request_id' = request_id]_vars
\* positions inside the loop of the poller
PollPositions == {"poll", "polled"}

\* C20: the poll has no bound of its own. It is left only by a query that gave a
\* payload, and what it returns is that payload; after an empty or a failed query it
\* queries again, however many queries came before, so it never ends while no query
\* gives a payload; and once a query has given a payload the poll returns it.
C20_PollEndsOnlyWithPayload ==
    /\ [][(pc \in PollPositions /\ pc' \notin PollPositions) =>
            /\ poll_response = "data"
            /\ pc' = "get_offchain_data"
            /\ data_url' = "off_chain"]_vars
    /\ [][(pc = "polled" /\ poll_response # "data") => pc' = "poll"]_vars
    /\ [](pc = "poll" => ENABLED PollOffchain)
    /\ (pc = "polled" /\ poll_response = "data") ~> (pc = "get_offchain_data")

\* C20 witness: the poll has returned the payload a query gave
C20_Witness ==
    /\ pc = "get_offchain_data"
    /\ "fetch_offchain_info" \in calls
    /\ poll_response = "data"
    /\ data_url = "off_chain"
\* C21 as claimed: in an off-chain call the request id polled for is the one the
\* client computed and signed in the attempt that succeeded, and that one is the
\* identifier of the acknowledgment.
C21_PolledIdIsSignedId ==
    pc \in PollPositions =>
        /\ request_id = signed_request_id
        /\ signed_request_id = response.request_id

\* C21 amended: in an off-chain call the request id polled for is the identifier of
\* the acknowledgment of the attempt that succeeded; the id the client computed and
\* signed in that attempt is sent in the envelope and is not compared with it, so
\* the two are equal exactly when the endpoint acknowledged the id it was sent.
C21_PolledIdIsAcknowledgedId ==
    pc \in PollPositions =>
        /\ response.kind = "ack"
        /\ request_id = response.request_id
        /\ signed_request_id \in RequestIds
        /\ {"getRequestId", "sign_message", "post_envelope"} \subseteq calls
        /\ (request_id = signed_request_id) = (response.request_id = signed_request_id)

\* C21 witness: the poll runs for an acknowledged id that is not the signed one
C21_Witness ==
    /\ pc = "polled"
    /\ request_id = response.request_id
    /\ request_id # signed_request_id
\* C22: the on-chain delivery wait is bounded: a waiter none of whose watches has
\* seen a delivery event is not held until one does, it can leave the wait by
\* itself (timed out) however long no event arrives.
C22_WaitCanTimeOut ==
    (pc = "waiting" /\ \A t \in tasks : taskState[t] = "pending") => ENABLED WaitForTasks
\* the number a byte string denotes when its byte i weighs ByteRange^(Len - i)
RECURSIVE PositionalValue(_, _)
PositionalValue(bytes, i) ==
    IF i > Len(bytes) THEN 0
                      ELSE bytes[i] * ByteRange ^ (Len(bytes) - i) + PositionalValue(bytes, i + 1)

C24_NonEmptyRace ==
    (/\ "watch_for_marketplace_request_id" \in calls
     /\ pc \in {"waiting", "get_data", "done"})
        => /\ tasks # {}
           /\ calls \cap {"create_task_on_chain", "create_task_off_chain"} # {}
\* C25: a retry ceiling or a timeout the caller supplied is the one the submission
\* loop uses, so a ceiling of 0 and a timeout of 0 each give no attempt at all; only
\* an omitted parameter gives the default.
C25_SuppliedValuesUsed ==
    /\ args.retries # NoneArg => tries <= args.retries /\ submitted <= args.retries
    /\ (args.timeout # NoneArg /\ pc \in LoopPositions) => deadline = args.timeout
    /\ args.timeout = 0 => tries = 0
\* C26: in an on-chain call the subscription to the marketplace events is registered,
\* on the connection opened before it, by the time the submitter is entered: before
\* the first request transaction is built, signed or sent.
C26_SubscribedBeforeFirstSend ==
    /\ (~args.use_offchain /\ ReachedSubmission) =>
          {"wss_connect", "register_event_handlers"} \subseteq calls
    /\ calls \cap RequestOps # {} => "register_event_handlers" \in calls
    /\ pc = "register" => calls \cap (TransactionOps \cup {"push_metadata_to_ipfs"}) = {}

\* C26 witness: a request was sent by a call that had registered its handlers
C26_Witness ==
    /\ ~args.use_offchain
    /\ pc = "waiting"
    /\ "send_request" \in calls
    /\ "register_event_handlers" \in calls
\* C27: a marketplace address that is the zero address ends the call with no result,
\* and a missing private key file ends it with an error; in both cases no websocket
\* connection was opened, no ledger value was read and no transaction was built.
C27_EarlyExitsTouchNothing ==
    /\ mech_marketplace_contract = ADDRESS_ZERO =>
          /\ pc = "done"
          /\ outcome = "None"
          /\ private_key_file = "unread"
    /\ private_key_file = "missing" =>
          /\ pc = "done"
          /\ outcome = "raise"
    /\ (mech_marketplace_contract = ADDRESS_ZERO \/ private_key_file = "missing") =>
          /\ calls = {}
          /\ payment_type = None
          /\ max_delivery_rate = NotRead
          /\ tx_value = NotRead
          /\ approve_value = NotRead

\* C27 witness: a call with a marketplace address stopped for its missing key file
C27_Witness ==
    /\ mech_marketplace_contract = MARKETPLACE_ADDRESS
    /\ private_key_file = "missing"
    /\ outcome = "raise"
====
